---- MODULE Spec2Model ----
(***************************************************************************)
(* Model of programs/decentra-voice-mvp/src/lib.rs: an Anchor program that *)
(* keeps Channel accounts and offers create_channel, join_channel,         *)
(* leave_channel and get_channel_info.  The runtime executes one           *)
(* instruction at a time against an account it has write-locked, so every  *)
(* handler is one atomic action on the account it is given.                *)
(*                                                                         *)
(* Strings that the program builds (the channel id) are sequences of       *)
(* one-character strings; u32 values are pairs <<hi, lo>> of 16-bit limbs  *)
(* so that the full 32-bit width is kept.                                  *)
(***************************************************************************)
EXTENDS Integers, Sequences, FiniteSets, TLC

VARIABLES
    channels,   \* slot -> Channel account data
    created,    \* slot -> the account data as create_channel left it
    last,       \* the instruction executed last: arguments, account before, result
    prev,       \* the instruction executed before last
    ncalls,     \* number of instructions executed
    inflight,   \* transactions submitted and not yet executed
    issued,     \* number of transactions submitted at the start
    tally       \* slot -> successful joins, and leaves run at a positive count

vars == <<channels, created, last, prev, ncalls, inflight, issued, tally>>

(***************************************************************************)
(* Bounds of the model.                                                    *)
(***************************************************************************)
MaxCalls == 3
MaxK == 4
SeedSpan == 10

Slots == {1, 2}
Users == {"alice", "bob"}
Names == {"general", "voice"}
NoUser == "nobody"
NoName == ""

\* Values of Clock::get()?.unix_timestamp seen by create_channel.
Timestamps == {65535, 131070, 305441741}

\* Seeds on which generate_channel_id is exercised on its own.
SeedBases == {0, 4096, 65535, 65536, 131070, 305441741, 1699977900}
Seeds == {b + d : b \in SeedBases, d \in (0 - SeedSpan)..SeedSpan}

(***************************************************************************)
(* format!("{:X}", v) for v: i64.                                          *)
(***************************************************************************)
HexChars == <<"0", "1", "2", "3", "4", "5", "6", "7",
              "8", "9", "A", "B", "C", "D", "E", "F">>

RECURSIVE UpperHex(_)
\* Non-negative value: the minimal number of digits, no padding.
UpperHex(v) ==
    IF v < 16 THEN <<HexChars[v + 1]>>
    ELSE Append(UpperHex(v \div 16), HexChars[(v % 16) + 1])

RECURSIVE Pow16(_)
Pow16(n) == IF n = 0 THEN 1 ELSE 16 * Pow16(n - 1)

\* Digit number i (1 = most significant) of m written with 16 hex digits.
\* m < 2^31, so the first 8 digits are 0.
HexDigit16(m, i) == IF i <= 8 THEN 0 ELSE (m \div Pow16(16 - i)) % 16

\* Negative i64: {:X} prints the 64-bit two's complement, which is the
\* bitwise complement of (-v - 1).
UpperHexNeg(v) ==
    [i \in 1..16 |-> HexChars[(15 - HexDigit16((0 - v) - 1, i)) + 1]]

FormatUpperHex(v) == IF v >= 0 THEN UpperHex(v) ELSE UpperHexNeg(v)

\* Rust's % on i64 truncates toward zero: the result has the dividend's sign.
RustRem(a, b) == IF a >= 0 THEN a % b ELSE 0 - ((0 - a) % b)

saturating_sub(a, b) == IF a >= b THEN a - b ELSE 0

ChatPrefix == <<"C", "H", "A", "T", "-">>

IdModulus == 65535

\* generate_channel_id reducing the seed modulo 65536 instead of 0xFFFF.
generate_channel_id_mod65536(timestamp) ==
    LET suffix == FormatUpperHex(RustRem(timestamp, 65536))
        from == saturating_sub(Len(suffix), 4)
    IN  ChatPrefix \o SubSeq(suffix, from + 1, Len(suffix))

generate_channel_id(timestamp) ==
    LET suffix == FormatUpperHex(RustRem(timestamp, IdModulus))
        from == saturating_sub(Len(suffix), 4)
    IN  ChatPrefix \o SubSeq(suffix, from + 1, Len(suffix))

(***************************************************************************)
(* u32 arithmetic on <<hi, lo>> limbs.                                     *)
(***************************************************************************)
Limb == 65536
U32Zero == <<0, 0>>
U32Max == <<Limb - 1, Limb - 1>>
U32Of(n) == <<n \div Limb, n % Limb>>
U32Gt0(c) == c[1] > 0 \/ c[2] > 0
U32Le(a, b) == a[1] < b[1] \/ (a[1] = b[1] /\ a[2] <= b[2])

\* c + 1 and c - 1 as mathematical integers, in limbs (not reduced to 32
\* bits: the successor of U32Max is <<Limb, 0>>, which is not a u32).
PlusOne(c) == IF c[2] = Limb - 1 THEN <<c[1] + 1, 0>> ELSE <<c[1], c[2] + 1>>
MinusOne(c) == IF c[2] = 0 THEN <<c[1] - 1, Limb - 1>> ELSE <<c[1], c[2] - 1>>

\* `x += 1` on a u32.  At u32::MAX the build decides: with overflow checks
\* the instruction panics, without them the value wraps to 0.
AddAssignOne(c) ==
    IF c = U32Max
    THEN {[panic |-> TRUE, val |-> c], [panic |-> FALSE, val |-> U32Zero]}
    ELSE {[panic |-> FALSE, val |-> PlusOne(c)]}

\* `x -= 1` on a u32.  At 0 the build decides between panic and wrap.
SubAssignOne(c) ==
    IF c = U32Zero
    THEN {[panic |-> TRUE, val |-> c], [panic |-> FALSE, val |-> U32Max]}
    ELSE {[panic |-> FALSE, val |-> MinusOne(c)]}

(***************************************************************************)
(* Accounts and call records.                                              *)
(***************************************************************************)
\* Channel account data.  initialized is the account discriminator written
\* by `init`; an account that was never created holds no Channel.
Uninit ==
    [initialized |-> FALSE, id |-> <<>>, name |-> NoName, creator |-> NoUser,
     created_at |-> 0, active |-> FALSE, participant_count |-> U32Zero]

NoInfo ==
    [id |-> <<>>, name |-> NoName, creator |-> NoUser, created_at |-> 0,
     participant_count |-> U32Zero, active |-> FALSE]

\* The ChannelInfo built field by field from a Channel.
ChannelInfo(channel) ==
    [id |-> channel.id, name |-> channel.name, creator |-> channel.creator,
     created_at |-> channel.created_at,
     participant_count |-> channel.participant_count,
     active |-> channel.active]

\* Result of one instruction: the account data it leaves behind and what
\* the caller gets.  status is "Ok", "Err" (error names the code) or
\* "Panic" (the instruction aborted; the runtime discards its writes).
Outcome(channel, status, error, ret_id, ret_info) ==
    [channel |-> channel, status |-> status, error |-> error,
     ret_id |-> ret_id, ret_info |-> ret_info]

\* The codes of the program's own error enum.
ChannelError == {"ChannelInactive", "ChannelFull", "Unauthorized"}

NoCall ==
    [op |-> "none", slot |-> 0, user |-> NoUser, name |-> NoName, clock |-> 0,
     pre |-> Uninit, status |-> "none", error |-> "none",
     ret_id |-> <<>>, ret_info |-> NoInfo]

(***************************************************************************)
(* Instruction handlers: each maps the account it is given (and its        *)
(* arguments) to the set of outcomes the build can produce.  join_channel  *)
(* and leave_channel receive the signer (ctx.accounts.user) and never read *)
(* it.                                                                     *)
(***************************************************************************)
\* create_channel without `channel.active = true`.
create_channel_inactive(channel, user, name, unix_timestamp) ==
    LET channel_id == generate_channel_id(unix_timestamp)
        stored == [channel EXCEPT !.id = channel_id,
                                  !.name = name,
                                  !.creator = user,
                                  !.created_at = unix_timestamp,
                                  !.participant_count = U32Zero]
    IN  {Outcome(stored, "Ok", "none", channel_id, NoInfo)}

create_channel(channel, user, name, unix_timestamp) ==
    LET channel_id == generate_channel_id(unix_timestamp)
        stored == [channel EXCEPT !.id = channel_id,
                                  !.name = name,
                                  !.creator = user,
                                  !.created_at = unix_timestamp,
                                  !.active = TRUE,
                                  !.participant_count = U32Zero]
    IN  {Outcome(stored, "Ok", "none", channel_id, NoInfo)}

\* join_channel with the increment applied to a copy of the account.
join_channel_on_copy(channel, user) ==
    IF ~channel.active
    THEN {Outcome(channel, "Err", "ChannelInactive", <<>>, NoInfo)}
    ELSE {IF o.panic
          THEN Outcome(channel, "Panic", "none", <<>>, NoInfo)
          ELSE LET updated == [channel EXCEPT !.participant_count = o.val]
               IN  Outcome(channel, "Ok", "none", <<>>, ChannelInfo(updated))
          : o \in AddAssignOne(channel.participant_count)}

\* join_channel without the require! on the active flag.
join_channel_unchecked(channel, user) ==
    {IF o.panic
     THEN Outcome(channel, "Panic", "none", <<>>, NoInfo)
     ELSE LET updated == [channel EXCEPT !.participant_count = o.val]
          IN  Outcome(updated, "Ok", "none", <<>>, ChannelInfo(updated))
     : o \in AddAssignOne(channel.participant_count)}

\* join_channel that also overwrites the creator field.
join_channel_takes_over(channel, user) ==
    IF ~channel.active
    THEN {Outcome(channel, "Err", "ChannelInactive", <<>>, NoInfo)}
    ELSE {IF o.panic
          THEN Outcome(channel, "Panic", "none", <<>>, NoInfo)
          ELSE LET updated == [channel EXCEPT !.participant_count = o.val,
                                              !.creator = NoUser]
               IN  Outcome(updated, "Ok", "none", <<>>, ChannelInfo(updated))
          : o \in AddAssignOne(channel.participant_count)}

\* join_channel that does not count the creator as a participant.
join_channel_skips_creator(channel, user) ==
    IF ~channel.active
    THEN {Outcome(channel, "Err", "ChannelInactive", <<>>, NoInfo)}
    ELSE IF user = channel.creator
    THEN {Outcome(channel, "Ok", "none", <<>>, ChannelInfo(channel))}
    ELSE {IF o.panic
          THEN Outcome(channel, "Panic", "none", <<>>, NoInfo)
          ELSE LET updated == [channel EXCEPT !.participant_count = o.val]
               IN  Outcome(updated, "Ok", "none", <<>>, ChannelInfo(updated))
          : o \in AddAssignOne(channel.participant_count)}

\* join_channel reporting ChannelFull when the counter cannot grow.
join_channel_capped(channel, user) ==
    IF ~channel.active
    THEN {Outcome(channel, "Err", "ChannelInactive", <<>>, NoInfo)}
    ELSE IF channel.participant_count = U32Max
    THEN {Outcome(channel, "Err", "ChannelFull", <<>>, NoInfo)}
    ELSE {IF o.panic
          THEN Outcome(channel, "Panic", "none", <<>>, NoInfo)
          ELSE LET updated == [channel EXCEPT !.participant_count = o.val]
               IN  Outcome(updated, "Ok", "none", <<>>, ChannelInfo(updated))
          : o \in AddAssignOne(channel.participant_count)}

\* join_channel building the ChannelInfo before the increment.
join_channel_stale_info(channel, user) ==
    IF ~channel.active
    THEN {Outcome(channel, "Err", "ChannelInactive", <<>>, NoInfo)}
    ELSE {IF o.panic
          THEN Outcome(channel, "Panic", "none", <<>>, NoInfo)
          ELSE LET updated == [channel EXCEPT !.participant_count = o.val]
               IN  Outcome(updated, "Ok", "none", <<>>, ChannelInfo(channel))
          : o \in AddAssignOne(channel.participant_count)}

join_channel(channel, user) ==
    IF ~channel.active
    THEN {Outcome(channel, "Err", "ChannelInactive", <<>>, NoInfo)}
    ELSE {IF o.panic
          THEN Outcome(channel, "Panic", "none", <<>>, NoInfo)
          ELSE LET updated == [channel EXCEPT !.participant_count = o.val]
               IN  Outcome(updated, "Ok", "none", <<>>, ChannelInfo(updated))
          : o \in AddAssignOne(channel.participant_count)}

\* leave_channel without the `> 0` test.
leave_channel_unguarded(channel, user) ==
    {IF o.panic
     THEN Outcome(channel, "Panic", "none", <<>>, NoInfo)
     ELSE Outcome([channel EXCEPT !.participant_count = o.val],
                  "Ok", "none", <<>>, NoInfo)
     : o \in SubAssignOne(channel.participant_count)}

\* leave_channel that refuses an empty channel instead of doing nothing.
leave_channel_rejects_empty(channel, user) ==
    IF U32Gt0(channel.participant_count)
    THEN {IF o.panic
          THEN Outcome(channel, "Panic", "none", <<>>, NoInfo)
          ELSE Outcome([channel EXCEPT !.participant_count = o.val],
                       "Ok", "none", <<>>, NoInfo)
          : o \in SubAssignOne(channel.participant_count)}
    ELSE {Outcome(channel, "Err", "ChannelInactive", <<>>, NoInfo)}

\* leave_channel with the require! on the active flag that join_channel has.
leave_channel_requires_active(channel, user) ==
    IF ~channel.active
    THEN {Outcome(channel, "Err", "ChannelInactive", <<>>, NoInfo)}
    ELSE IF U32Gt0(channel.participant_count)
    THEN {IF o.panic
          THEN Outcome(channel, "Panic", "none", <<>>, NoInfo)
          ELSE Outcome([channel EXCEPT !.participant_count = o.val],
                       "Ok", "none", <<>>, NoInfo)
          : o \in SubAssignOne(channel.participant_count)}
    ELSE {Outcome(channel, "Ok", "none", <<>>, NoInfo)}

\* leave_channel that closes the channel when the last participant leaves.
leave_channel_closes_empty(channel, user) ==
    IF U32Gt0(channel.participant_count)
    THEN {IF o.panic
          THEN Outcome(channel, "Panic", "none", <<>>, NoInfo)
          ELSE Outcome([channel EXCEPT !.participant_count = o.val,
                                       !.active = U32Gt0(o.val)],
                       "Ok", "none", <<>>, NoInfo)
          : o \in SubAssignOne(channel.participant_count)}
    ELSE {Outcome(channel, "Ok", "none", <<>>, NoInfo)}

leave_channel(channel, user) ==
    IF U32Gt0(channel.participant_count)
    THEN {IF o.panic
          THEN Outcome(channel, "Panic", "none", <<>>, NoInfo)
          ELSE Outcome([channel EXCEPT !.participant_count = o.val],
                       "Ok", "none", <<>>, NoInfo)
          : o \in SubAssignOne(channel.participant_count)}
    ELSE {Outcome(channel, "Ok", "none", <<>>, NoInfo)}

get_channel_info(channel) ==
    {Outcome(channel, "Ok", "none", <<>>, ChannelInfo(channel))}

(***************************************************************************)
(* Account validation of each instruction (the #[derive(Accounts)]         *)
(* structs), followed by the handler.                                      *)
(***************************************************************************)
\* The account constraint `init_if_needed` in place of `init`: an existing
\* account is accepted and handed to the handler.
CreateChannelAccounts_init_if_needed(channel, user, name, unix_timestamp) ==
    create_channel([channel EXCEPT !.initialized = TRUE],
                   user, name, unix_timestamp)

\* `init`: the channel account must not exist yet; it is allocated zeroed
\* and tagged as a Channel before the handler runs.
CreateChannelAccounts(channel, user, name, unix_timestamp) ==
    IF channel.initialized
    THEN {Outcome(channel, "Err", "AccountAlreadyInUse", <<>>, NoInfo)}
    ELSE create_channel([channel EXCEPT !.initialized = TRUE],
                        user, name, unix_timestamp)

\* Account<'info, Channel>: the account must hold a Channel.
JoinChannelAccounts(channel, user) ==
    IF ~channel.initialized
    THEN {Outcome(channel, "Err", "AccountNotInitialized", <<>>, NoInfo)}
    ELSE join_channel(channel, user)

LeaveChannelAccounts(channel, user) ==
    IF ~channel.initialized
    THEN {Outcome(channel, "Err", "AccountNotInitialized", <<>>, NoInfo)}
    ELSE leave_channel(channel, user)

GetChannelInfoAccounts(channel) ==
    IF ~channel.initialized
    THEN {Outcome(channel, "Err", "AccountNotInitialized", <<>>, NoInfo)}
    ELSE get_channel_info(channel)

\* Tally of a record on which no join and no leave has run.  joins is kept
\* in limbs, unreduced, like PlusOne.
NoTally == [joins |-> U32Zero, leaves |-> 0]

(***************************************************************************)
(* Executing one instruction against slot s.                               *)
(***************************************************************************)
Execute(op, s, user, name, clock, outcomes) ==
    \E r \in outcomes :
        /\ channels' = [channels EXCEPT ![s] = r.channel]
        /\ created' = IF op = "create_channel" /\ r.status = "Ok"
                      THEN [created EXCEPT ![s] = r.channel]
                      ELSE created
        /\ last' = [op |-> op, slot |-> s, user |-> user, name |-> name,
                    clock |-> clock, pre |-> channels[s],
                    status |-> r.status, error |-> r.error,
                    ret_id |-> r.ret_id, ret_info |-> r.ret_info]
        /\ prev' = last
        /\ ncalls' = ncalls + 1
        /\ tally' = [tally EXCEPT ![s] =
               IF op = "create_channel" /\ r.status = "Ok"
               THEN NoTally
               ELSE IF op = "join_channel" /\ r.status = "Ok"
               THEN [@ EXCEPT !.joins = PlusOne(@)]
               ELSE IF /\ op = "leave_channel"
                       /\ r.status = "Ok"
                       /\ channels[s].initialized
                       /\ U32Gt0(channels[s].participant_count)
               THEN [@ EXCEPT !.leaves = @ + 1]
               ELSE @]

\* create_channel refusing an id that another record already carries.
CreateChannel_unique_id(s, u, name, t) ==
    IF \E s2 \in Slots \ {s} :
           channels[s2].initialized /\ channels[s2].id = generate_channel_id(t)
    THEN Execute("create_channel", s, u, name, t,
                 {Outcome(channels[s], "Err", "IdTaken", <<>>, NoInfo)})
    ELSE Execute("create_channel", s, u, name, t,
                 CreateChannelAccounts(channels[s], u, name, t))

CreateChannel(s, u, name, t) ==
    Execute("create_channel", s, u, name, t,
            CreateChannelAccounts(channels[s], u, name, t))

JoinChannel(s, u) ==
    Execute("join_channel", s, u, NoName, 0, JoinChannelAccounts(channels[s], u))

LeaveChannel(s, u) ==
    Execute("leave_channel", s, u, NoName, 0, LeaveChannelAccounts(channels[s], u))

GetChannelInfo(s) ==
    Execute("get_channel_info", s, NoUser, NoName, 0,
            GetChannelInfoAccounts(channels[s]))

(***************************************************************************)
(* Spec: the program started on empty storage; any caller may send any     *)
(* instruction at any time.                                                *)
(***************************************************************************)
\* Transactions submitted and not yet executed, per instruction and signer,
\* all naming the account JoinTarget.
TxKinds == {"join_channel", "leave_channel"} \X Users
NoTx == [k \in TxKinds |-> 0]
JoinTarget == 1

Init ==
    /\ channels = [s \in Slots |-> Uninit]
    /\ created = channels
    /\ last = NoCall
    /\ prev = NoCall
    /\ ncalls = 0
    /\ inflight = NoTx
    /\ issued = 0
    /\ tally = [s \in Slots |-> NoTally]

Create ==
    /\ ncalls < MaxCalls
    /\ \E s \in Slots, u \in Users, name \in Names, t \in Timestamps :
           CreateChannel(s, u, name, t)
    /\ UNCHANGED <<inflight, issued>>

Join ==
    /\ ncalls < MaxCalls
    /\ \E s \in Slots, u \in Users : JoinChannel(s, u)
    /\ UNCHANGED <<inflight, issued>>

Leave ==
    /\ ncalls < MaxCalls
    /\ \E s \in Slots, u \in Users : LeaveChannel(s, u)
    /\ UNCHANGED <<inflight, issued>>

GetInfo ==
    /\ ncalls < MaxCalls
    /\ \E s \in Slots : GetChannelInfo(s)
    /\ UNCHANGED <<inflight, issued>>

Next == Create \/ Join \/ Leave \/ GetInfo

Spec == Init /\ [][Next]_vars

(***************************************************************************)
(* SpecIds: generate_channel_id applied to a seed on its own.              *)
(***************************************************************************)
GenerateId ==
    /\ last.op = "none"
    /\ \E seed \in Seeds :
           last' = [NoCall EXCEPT !.op = "generate_channel_id",
                                  !.clock = seed,
                                  !.status = "Ok",
                                  !.ret_id = generate_channel_id(seed)]
    /\ UNCHANGED <<channels, created, prev, ncalls, inflight, issued, tally>>

NextIds == GenerateId

SpecIds == Init /\ [][NextIds]_vars

(***************************************************************************)
(* SpecJoins: K join_channel transactions are submitted at once against a  *)
(* freshly created record; the runtime executes them in any order.         *)
(***************************************************************************)
FreshChannels ==
    {r.channel : r \in UNION {CreateChannelAccounts(Uninit, u, name, t) :
                                u \in Users, name \in Names, t \in Timestamps}}

RECURSIVE SumOver(_, _)
SumOver(f, S) ==
    IF S = {} THEN 0
    ELSE LET k == CHOOSE x \in S : TRUE IN f[k] + SumOver(f, S \ {k})

Pending == SumOver(inflight, TxKinds)

InitJoins ==
    /\ \E fresh \in FreshChannels :
           channels = [s \in Slots |-> IF s = JoinTarget THEN fresh ELSE Uninit]
    /\ created = channels
    /\ last = NoCall
    /\ prev = NoCall
    /\ ncalls = 0
    /\ inflight \in [TxKinds -> 0..MaxK]
    /\ \A k \in TxKinds : k[1] # "join_channel" => inflight[k] = 0
    /\ SumOver(inflight, TxKinds) \in 1..MaxK
    /\ issued = SumOver(inflight, TxKinds)
    /\ tally = [s \in Slots |-> NoTally]

ProcessJoin ==
    /\ \E u \in Users :
           /\ inflight[<<"join_channel", u>>] > 0
           /\ JoinChannel(JoinTarget, u)
           /\ inflight' = [inflight EXCEPT ![<<"join_channel", u>>] = @ - 1]
    /\ UNCHANGED issued

NextJoins == ProcessJoin

SpecJoins == InitJoins /\ [][NextJoins]_vars

(***************************************************************************)
(* SpecAccounts: the instructions applied to an account whose data is any  *)
(* well-formed Channel, whatever history produced it.  The tally starts as *)
(* the shortest such history: as many joins as the count, and no leave.    *)
(***************************************************************************)
ImageCounts == {U32Zero, U32Of(1), MinusOne(U32Max), U32Max}

AccountImages ==
    {Uninit} \cup
    {[initialized |-> TRUE, id |-> generate_channel_id(t), name |-> "general",
      creator |-> "alice", created_at |-> t, active |-> a,
      participant_count |-> c] :
        t \in {65535}, a \in BOOLEAN, c \in ImageCounts}

InitAccounts ==
    /\ \E image \in AccountImages :
           channels = [s \in Slots |-> IF s = 1 THEN image ELSE Uninit]
    /\ created = channels
    /\ last = NoCall
    /\ prev = NoCall
    /\ ncalls = 0
    /\ inflight = NoTx
    /\ issued = 0
    /\ tally = [s \in Slots |->
                   [joins |-> channels[s].participant_count, leaves |-> 0]]

SpecAccounts == InitAccounts /\ [][Next]_vars

(***************************************************************************)
(* Properties.                                                             *)
(***************************************************************************)

\* C1 (as claimed): for every seed, generate_channel_id(seed) is "CHAT-"
\* followed by exactly 4 uppercase hexadecimal characters, so every id has
\* the same length 9.
C1_FixedShape ==
    last.op = "generate_channel_id" =>
        LET id == last.ret_id
        IN  /\ Len(id) = 9
            /\ SubSeq(id, 1, 5) = ChatPrefix
            /\ \A i \in 6..9 : \E d \in 1..16 : id[i] = HexChars[d]

\* C2 (as claimed): for every non-negative seed, the hexadecimal suffix of
\* generate_channel_id(seed), read as a number, is seed mod 65536.
C2_SuffixIsSeedMod65536 ==
    (last.op = "generate_channel_id" /\ last.clock >= 0) =>
        LET id == last.ret_id
            digit(c) == (CHOOSE d \in 1..16 : HexChars[d] = c) - 1
            value[n \in 5..Len(id)] ==
                IF n = 5 THEN 0 ELSE value[n - 1] * 16 + digit(id[n])
        IN  value[Len(id)] = last.clock % 65536

C4_NoLostJoin ==
    Pending = 0 => channels[JoinTarget].participant_count = U32Of(issued)

C4_Witness ==
    /\ Pending = 0
    /\ issued >= 3
    /\ last.op = "join_channel"
    /\ prev.op = "join_channel"
    /\ last.user # prev.user
    /\ channels[JoinTarget].participant_count = U32Of(issued)

\* C5 (as claimed): join_channel on an active record succeeds whatever the
\* current participant_count is, and the count after the call is the count
\* before plus exactly 1.
C5_JoinAlwaysAddsOne ==
    (last.op = "join_channel" /\ last.pre.initialized /\ last.pre.active) =>
        /\ last.status = "Ok"
        /\ channels[last.slot].participant_count =
               PlusOne(last.pre.participant_count)

\* C6: every record has participant_count >= 0, and a leave never
\* underflows the counter: it neither aborts on the subtraction nor leaves
\* a count above the one it found.
C6_CountNeverNegative ==
    /\ \A s \in Slots :
           channels[s].initialized =>
               /\ channels[s].participant_count[1] >= 0
               /\ channels[s].participant_count[2] >= 0
    /\ (last.op = "leave_channel" /\ last.pre.initialized) =>
           /\ last.status # "Panic"
           /\ U32Le(channels[last.slot].participant_count,
                    last.pre.participant_count)

C6_Witness ==
    /\ last.op = "leave_channel"
    /\ last.pre.initialized
    /\ last.pre.participant_count = U32Zero
    /\ prev.op = "create_channel"
    /\ prev.slot = last.slot

\* C7: leave_channel on a record with participant_count = 0 returns
\* success and leaves the whole record unchanged, so repeating it keeps
\* the count at 0 and never produces an error.
C7_LeaveAtZeroIsNoOp ==
    (/\ last.op = "leave_channel"
     /\ last.pre.initialized
     /\ last.pre.participant_count = U32Zero) =>
        /\ last.status = "Ok"
        /\ channels[last.slot] = last.pre

C7_Witness ==
    /\ prev.op = "leave_channel"
    /\ prev.pre.initialized
    /\ prev.pre.participant_count = U32Zero
    /\ last.op = "leave_channel"
    /\ last.slot = prev.slot
    /\ last.pre.participant_count = U32Zero
    /\ last.status = "Ok"
    /\ channels[last.slot].participant_count = U32Zero

\* C8: join_channel on a record whose active flag is false fails with
\* ChannelInactive and leaves every field of the record unchanged.
C8_InactiveJoinFails ==
    (last.op = "join_channel" /\ last.pre.initialized /\ ~last.pre.active) =>
        /\ last.status = "Err"
        /\ last.error = "ChannelInactive"
        /\ channels[last.slot] = last.pre

C8_Witness ==
    /\ last.op = "join_channel"
    /\ last.pre.initialized
    /\ ~last.pre.active
    /\ U32Gt0(last.pre.participant_count)
    /\ last.error = "ChannelInactive"

\* C9: once a record is created, its id, name, creator and created_at stay
\* the values create_channel set, get_channel_info returns exactly those,
\* and join_channel and leave_channel write no field other than
\* participant_count.
C9_CreationFieldsKept ==
    /\ \A s \in Slots :
           channels[s].initialized =>
               /\ channels[s].id = created[s].id
               /\ channels[s].name = created[s].name
               /\ channels[s].creator = created[s].creator
               /\ channels[s].created_at = created[s].created_at
    /\ (last.op = "get_channel_info" /\ last.status = "Ok") =>
           /\ last.ret_info.id = created[last.slot].id
           /\ last.ret_info.name = created[last.slot].name
           /\ last.ret_info.creator = created[last.slot].creator
           /\ last.ret_info.created_at = created[last.slot].created_at
    /\ (last.op \in {"join_channel", "leave_channel"}) =>
           channels[last.slot] =
               [last.pre EXCEPT !.participant_count =
                                    channels[last.slot].participant_count]

C9_Witness ==
    /\ last.op = "get_channel_info"
    /\ last.status = "Ok"
    /\ prev.op \in {"join_channel", "leave_channel"}
    /\ prev.slot = last.slot
    /\ prev.status = "Ok"
    /\ last.ret_info.name \in Names
    /\ last.ret_info.creator \in Users

\* C10: right after a successful create_channel(name) by user u at clock
\* timestamp t the record has id = generate_channel_id(t), name = name,
\* creator = u, created_at = t, active = true and participant_count = 0,
\* and the value returned to the caller equals the stored id.
C10_CreateStoresArguments ==
    (last.op = "create_channel" /\ last.status = "Ok") =>
        /\ channels[last.slot] =
               [initialized |-> TRUE,
                id |-> generate_channel_id(last.clock),
                name |-> last.name,
                creator |-> last.user,
                created_at |-> last.clock,
                active |-> TRUE,
                participant_count |-> U32Zero]
        /\ last.ret_id = channels[last.slot].id

C10_Witness ==
    /\ last.op = "create_channel"
    /\ last.status = "Ok"
    /\ last.user = "bob"
    /\ last.name = "voice"
    /\ last.clock = 65535
    /\ prev.op = "create_channel"
    /\ prev.status = "Ok"

\* C11 (as claimed): any two non-negative seeds that are congruent modulo
\* 65536 produce the same id from generate_channel_id.
C11_CongruentSeedsSameId ==
    (last.op = "generate_channel_id" /\ last.clock >= 0) =>
        \A other \in Seeds :
            (other >= 0 /\ other % 65536 = last.clock % 65536) =>
                generate_channel_id(other) = last.ret_id

\* C12: create_channel performs no uniqueness check on the id.  A create on
\* a new account succeeds even when its generated id equals the id of an
\* existing record; every other record is left unchanged and the two then
\* carry equal ids.  Two creates at the same timestamp get the same id.
C12_NoUniquenessCheck ==
    [][(/\ last'.op = "create_channel"
        /\ ncalls' = ncalls + 1
        /\ ~channels[last'.slot].initialized) =>
           /\ last'.status = "Ok"
           /\ channels'[last'.slot].initialized
           /\ \A s2 \in Slots \ {last'.slot} :
                  /\ channels'[s2] = channels[s2]
                  /\ (/\ channels[s2].initialized
                      /\ channels[s2].id = generate_channel_id(last'.clock)) =>
                         channels'[last'.slot].id = channels'[s2].id
           /\ (/\ prev'.op = "create_channel"
               /\ prev'.status = "Ok"
               /\ prev'.clock = last'.clock) =>
                  last'.ret_id = prev'.ret_id]_vars

C12_Witness ==
    /\ last.op = "create_channel"
    /\ last.status = "Ok"
    /\ \E s2 \in Slots \ {last.slot} :
           /\ channels[s2].initialized
           /\ channels[s2].id = channels[last.slot].id
           /\ channels[s2].created_at # channels[last.slot].created_at
           /\ U32Gt0(channels[s2].participant_count)

\* C13: every record created by create_channel has active = true in every
\* state reached afterwards, so join_channel on such a record never fails
\* with ChannelInactive.
C13_CreatedStaysActive ==
    /\ \A s \in Slots : channels[s].initialized => channels[s].active
    /\ (last.op = "join_channel" /\ last.pre.initialized) =>
           /\ last.error # "ChannelInactive"
           /\ last.status # "Err"

C13_Witness ==
    /\ last.op = "join_channel"
    /\ last.status = "Ok"
    /\ prev.op = "leave_channel"
    /\ prev.slot = last.slot
    /\ prev.status = "Ok"
    /\ prev.pre.initialized
    /\ channels[last.slot].active

\* C14: create_channel can be applied to an account only once.  A create
\* naming an account that already holds a record is rejected and leaves
\* that record unchanged, a create succeeds only on an account that holds
\* none, and an account that holds a record keeps holding one; so id, name,
\* creator and created_at are written once and participant_count is never
\* reset by a later create.
C14_CreateOnlyOnce ==
    /\ (last.op = "create_channel" /\ last.pre.initialized) =>
           /\ last.status = "Err"
           /\ channels[last.slot] = last.pre
    /\ (last.op = "create_channel" /\ last.status = "Ok") =>
           ~last.pre.initialized
    /\ (last.op # "none" /\ last.pre.initialized) =>
           channels[last.slot].initialized

C14_Witness ==
    /\ last.op = "create_channel"
    /\ last.pre.initialized
    /\ U32Gt0(last.pre.participant_count)
    /\ last.name # last.pre.name
    /\ last.status = "Err"
    /\ channels[last.slot].participant_count = last.pre.participant_count

\* C15: leave_channel never fails and does not check the active flag: on a
\* record with participant_count > 0 it lowers the count by exactly 1 and
\* writes nothing else, whether active is true or false.
C15_LeaveIgnoresActive ==
    (last.op = "leave_channel" /\ last.pre.initialized) =>
        /\ last.status = "Ok"
        /\ U32Gt0(last.pre.participant_count) =>
               channels[last.slot] =
                   [last.pre EXCEPT !.participant_count =
                                        MinusOne(last.pre.participant_count)]

C15_Witness ==
    /\ last.op = "leave_channel"
    /\ last.pre.initialized
    /\ ~last.pre.active
    /\ last.pre.participant_count = U32Max
    /\ last.status = "Ok"
    /\ channels[last.slot].participant_count = MinusOne(U32Max)

\* C16: get_channel_info changes no field of the record, always succeeds
\* on an existing record and returns a ChannelInfo whose six fields equal
\* the record's current fields; the ChannelInfo returned by a successful
\* join_channel equals the record's fields after the increment.
C16_InfoIsCurrentRecord ==
    /\ (last.op = "get_channel_info" /\ last.pre.initialized) =>
           /\ last.status = "Ok"
           /\ channels[last.slot] = last.pre
    /\ (/\ last.op \in {"get_channel_info", "join_channel"}
        /\ last.pre.initialized
        /\ last.status = "Ok") =>
           /\ last.ret_info.id = channels[last.slot].id
           /\ last.ret_info.name = channels[last.slot].name
           /\ last.ret_info.creator = channels[last.slot].creator
           /\ last.ret_info.created_at = channels[last.slot].created_at
           /\ last.ret_info.participant_count =
                  channels[last.slot].participant_count
           /\ last.ret_info.active = channels[last.slot].active
           /\ DOMAIN last.ret_info =
                  {"id", "name", "creator", "created_at",
                   "participant_count", "active"}
    /\ (last.op = "join_channel" /\ last.status = "Ok") =>
           last.ret_info.participant_count # last.pre.participant_count

C16_Witness ==
    /\ prev.op = "join_channel"
    /\ prev.status = "Ok"
    /\ prev.ret_info.participant_count = PlusOne(prev.pre.participant_count)
    /\ last.op = "get_channel_info"
    /\ last.slot = prev.slot
    /\ last.status = "Ok"
    /\ last.ret_info = prev.ret_info
    /\ last.ret_info.active

\* C17: no instruction ever returns ChannelFull or Unauthorized;
\* ChannelInactive, returned by join_channel, is the only ChannelError the
\* program produces.
C17_OnlyChannelInactive ==
    \A call \in {last, prev} :
        /\ call.error \notin {"ChannelFull", "Unauthorized"}
        /\ call.error \in ChannelError =>
               /\ call.error = "ChannelInactive"
               /\ call.op = "join_channel"
               /\ call.status = "Err"

C17_Witness ==
    /\ last.op = "join_channel"
    /\ last.error = "ChannelInactive"
    /\ prev.op = "join_channel"
    /\ prev.slot # last.slot
    /\ prev.status = "Ok"
    /\ prev.error \notin ChannelError

\* C18 (as claimed): on an active record with any participant_count c, a
\* successful join_channel immediately followed by leave_channel on the same
\* record restores participant_count to c and leaves every other field
\* unchanged.
C18_JoinThenLeaveRestores ==
    (/\ prev.op = "join_channel"
     /\ prev.status = "Ok"
     /\ last.op = "leave_channel"
     /\ last.slot = prev.slot) =>
        /\ last.status = "Ok"
        /\ channels[last.slot] = prev.pre

\* C19 (as claimed): after any sequence of join_channel and leave_channel
\* calls on a record created with count 0, participant_count equals the
\* number of successful joins minus the number of leaves that ran while
\* the count was positive, and so never exceeds the number of successful
\* joins.
C19_CountIsJoinsMinusLeaves ==
    \A s \in Slots :
        channels[s].initialized =>
            LET count == channels[s].participant_count
                low == count[2] + tally[s].leaves
                countPlusLeaves == <<count[1] + (low \div Limb), low % Limb>>
            IN  /\ countPlusLeaves = tally[s].joins
                /\ U32Le(count, tally[s].joins)

====
